---- MODULE Spec2Model ----
(***************************************************************************)
(* A model of src/src/observable.ts: the Observable / ObservableOf /       *)
(* Property revision engine (lazy fetch, reset, set, _reinit, observe/end,  *)
(* dispose) and the Collection built from Property nodes (__items,          *)
(* __focus, Updating).                                                      *)
(*                                                                         *)
(* One action is one JavaScript turn: a call made by user code (a          *)
(* macrotask), or one promise callback of the chain                        *)
(*      getFunc().then(...).catch(...).finally(...)                         *)
(* in Property.reset (a microtask).  Synchronous cascades (set -> change   *)
(* handlers -> dependents' reset -> ...) are computed inside the action by  *)
(* the recursive operators below, which take and return the state record.   *)
(***************************************************************************)
EXTENDS Integers, Sequences, FiniteSets, TLC

\* ------------------------------------------------------------------ bounds
\* Largest revision a node of the dependency graph is driven to.
MaxRev == 2

\* Largest revision a Property of the Collection is driven to.
MaxCollRev == 3

\* Largest number of elements the Collection is grown to by add().
MaxLen == 3

\* ------------------------------------------------------- the node universe
\* A and B are properties without dependencies, P depends on both.
\* A has an external get function and is cached; B has no get function (the
\* default getFunc applies) and default value 0; P has an external get function.
GraphNode == {"A", "B", "P"}

\* The Properties a Collection is made of: __items, __focus and Updating.
CollNode == {"items", "focus", "Updating"}

Node == GraphNode \cup CollNode

\* The models held by the Collection (TModel; no map function is supplied, so
\* the aggregate of a boxed element is its model, line 990).
Models == {"m1", "m2"}

\* The arrays passed as args.initial.
InitialArrays == { << >>, <<"m1">>, <<"m1", "m2">>, <<"m1", "m1">> }

\* The arrays the external array-fetch of the Collection resolves with.
FetchArrays == { << >>, <<"m2", "m1">> }

Handler == {"h1", "h2"}

\* The handlers user code registers on each node.
HandlersOf(n) ==
    CASE n = "P"                 -> Handler
      [] n \in {"A", "B", "items"} -> {"h1"}
      [] OTHER                   -> {}

Deps(n) == IF n = "P" THEN <<"A", "B">> ELSE << >>

DepSet(n) == {Deps(n)[i] : i \in 1..Len(Deps(n))}

HasGet(n) == n \in {"A", "P", "items"}

Cached(n) == n = "A"

\* The value of the default generator; box is the array captured by the
\* Collection constructor (line 1042), which () => capturedBox returns.
Default(n, box) ==
    CASE n = "items"    -> box
      [] n = "focus"    -> -1
      [] n = "Updating" -> TRUE
      [] n = "B"        -> "0"
      [] OTHER          -> "d"

\* The force arguments reset() is called with: for a node without
\* dependencies the argument is not read (line 715).
ForceArgs(n) == IF Deps(n) = << >> THEN {TRUE} ELSE BOOLEAN

\* Values user code passes to set(), and the nodes it calls set() on.
SetValues == {"a"}

SetNodes == {"A"}

\* What an external get operation can resolve with: a kind (how JavaScript
\* classifies the value) and the value itself.
GetResults(n) ==
    IF n = "P"
    THEN { [kind |-> "null",     val |-> "null"],
           [kind |-> "false",    val |-> "false"],
           [kind |-> "emptystr", val |-> ""],
           [kind |-> "truthy",   val |-> "a"] }
    ELSE { [kind |-> "null",     val |-> "null"],
           [kind |-> "truthy",   val |-> "a"] }

\* Every kind of value a get operation can resolve with: null, the falsy
\* values false, '', 0 and 0n, and a truthy value.
FetchResults ==
    { [kind |-> "null",     val |-> "null"],
      [kind |-> "false",    val |-> "false"],
      [kind |-> "emptystr", val |-> ""],
      [kind |-> "zero",     val |-> "0"],
      [kind |-> "bigzero",  val |-> "0n"],
      [kind |-> "truthy",   val |-> "a"] }

\* The JavaScript classification of a value held by a node.
KindOf(n, v) ==
    CASE n = "items"    -> "truthy"
      [] n = "focus"    -> IF v = 0 THEN "zero" ELSE "truthy"
      [] n = "Updating" -> IF v THEN "truthy" ELSE "false"
      [] OTHER ->
           CASE v = "null"  -> "null"
             [] v = "0"     -> "zero"
             [] v = "0n"    -> "bigzero"
             [] v = "false" -> "false"
             [] v = ""      -> "emptystr"
             [] OTHER       -> "truthy"

\* typeof value === 'object', for the values node n holds (arrays for __items,
\* primitives elsewhere).
IsObject(n, v) == n = "items"

\* Array.isArray(value)
IsArray(n, v) == n = "items"

VARIABLES
    constructed,      \* node -> "no" (not yet constructed), "live", or "disposed"
    revision,         \* Observable._revision
    value,            \* Property._value
    tracked,          \* Observable.dependencies: node -> (dependency -> tracked revision)
    dependents,       \* Observable.dependents, in insertion order
    isAsyncUpdating,  \* Property._isAsyncUpdating
    changeHandlers,   \* ObservableOf.changeHandlers
    inFlight,         \* node -> number of getFunc() promises not yet settled
    captured,         \* node -> value the default getFunc will resolve with
    settling,         \* node -> number of chains between .then/.catch and .finally
    capturedBox,      \* the array captured by the Collection constructor
    valueIsBox,       \* __items._value is that very array
    boxedGet,         \* where the call of Collection._boxedGet stands
    fetchedAt,        \* history: traced node -> its dependencies' revisions when
                      \* its last fetch started and when the fetch that produced
                      \* its value started
    log               \* what the last turn did, in order

vars == << constructed, revision, value, tracked, dependents, isAsyncUpdating,
           changeHandlers, inFlight, captured, settling, capturedBox, valueIsBox,
           boxedGet, fetchedAt, log >>

\* The stages of _boxedGet: not running, awaiting this.getFunc(), returned
\* (with the boxed response, null included) or thrown.
BoxedIdle == [stage |-> "idle", isNull |-> TRUE, arr |-> << >>]

BoxedAwaiting == [stage |-> "awaiting", isNull |-> TRUE, arr |-> << >>]

\* ------------------------------------------------------------- the log
Ev(e, n, hs, val, flag) == [e |-> e, node |-> n, hs |-> hs, val |-> val, flag |-> flag]

Logged(s, ev) == [s EXCEPT !.log = Append(@, ev)]

\* The state as a record, for the synchronous operators.
Cur(first) ==
    [ revision |-> revision, value |-> value, tracked |-> tracked,
      dependents |-> dependents, isAsyncUpdating |-> isAsyncUpdating,
      changeHandlers |-> changeHandlers, inFlight |-> inFlight,
      captured |-> captured, capturedBox |-> capturedBox,
      valueIsBox |-> valueIsBox, boxedGet |-> boxedGet, fetchedAt |-> fetchedAt,
      log |-> << first >> ]

Commit(s) ==
    /\ \A n \in CollNode : s.revision[n] <= MaxCollRev
    /\ capturedBox' = s.capturedBox
    /\ valueIsBox' = s.valueIsBox
    /\ boxedGet' = s.boxedGet
    /\ revision' = s.revision
    /\ value' = s.value
    /\ tracked' = s.tracked
    /\ dependents' = s.dependents
    /\ isAsyncUpdating' = s.isAsyncUpdating
    /\ changeHandlers' = s.changeHandlers
    /\ inFlight' = s.inFlight
    /\ captured' = s.captured
    /\ fetchedAt' = s.fetchedAt
    /\ log' = s.log

\* ------------------------------------------------------------ Observable
isUndefined(s, n) == s.revision[n] < 1

\* A dirty test that also fires on an unchanged revision.
isDirty_Inclusive(s, n, rev) == s.revision[n] >= rev

isDirty(s, n, rev) == s.revision[n] > rev

\* ------------------------------------------------------------- Property
\* ObservableOf._triggerChangeHandlers
TriggerChangeHandlers(s, n) ==
    Logged(s, Ev("handlers", n, s.changeHandlers[n], s.value[n], FALSE))

\* The value stored by Property.set (lines 647-655): an array is copied
\* (slice), any other object is merged into the current one, the rest is
\* assigned.
AssignedValue(n, cur, v, byRef) ==
    IF byRef # TRUE /\ IsObject(n, v)
    THEN IF IsArray(n, cur) /\ IsArray(n, v) THEN v ELSE cur
    ELSE v

RECURSIVE ResetOp(_, _, _)
RECURSIVE ResetEach(_, _, _)
RECURSIVE ReinitOp(_, _)
RECURSIVE ReinitEach(_, _, _)

\* seq.forEach(o => o.reset())
ResetEach(s, seq, i) ==
    IF i > Len(seq) THEN s
    ELSE ResetEach(ResetOp(s, seq[i], FALSE), seq, i + 1)

\* set that bumps the revision only for values the caller supplies, not for
\* values arriving from the node's own fetch.
SetOp_NoBumpWhileUpdating(s, n, v, byRef) ==
    LET s1 == [s EXCEPT !.value[n] = AssignedValue(n, @, v, byRef),
                        !.valueIsBox = IF n = "items" THEN FALSE ELSE @,
                        !.revision[n] = IF s.isAsyncUpdating[n] THEN @ ELSE @ + 1]
        s2 == IF ~s1.isAsyncUpdating[n]
              THEN Logged(s1, Ev("setFunc", n, {}, s1.value[n], FALSE))
              ELSE s1
        s3 == TriggerChangeHandlers(s2, n)
    IN  ResetEach(s3, s3.dependents[n], 1)

\* set that forwards every value to the commit function.
SetOp_AlwaysForwards(s, n, v, byRef) ==
    LET s1 == [s EXCEPT !.value[n] = AssignedValue(n, @, v, byRef),
                        !.valueIsBox = IF n = "items" THEN FALSE ELSE @,
                        !.revision[n] = @ + 1]
        s2 == Logged(s1, Ev("setFunc", n, {}, s1.value[n], FALSE))
        s3 == TriggerChangeHandlers(s2, n)
    IN  ResetEach(s3, s3.dependents[n], 1)

\* set that increments the revision last, after the dependents were reset.
SetOp_BumpLast(s, n, v, byRef) ==
    LET s1 == [s EXCEPT !.value[n] = AssignedValue(n, @, v, byRef),
                        !.valueIsBox = IF n = "items" THEN FALSE ELSE @]
        s2 == IF ~s1.isAsyncUpdating[n]
              THEN Logged(s1, Ev("setFunc", n, {}, s1.value[n], FALSE))
              ELSE s1
        s3 == TriggerChangeHandlers(s2, n)
        s4 == ResetEach(s3, s3.dependents[n], 1)
    IN  [s4 EXCEPT !.revision[n] = @ + 1]

\* Property.set
SetOp(s, n, v, byRef) ==
    LET s1 == [s EXCEPT !.value[n] = AssignedValue(n, @, v, byRef),
                        !.valueIsBox = IF n = "items" THEN FALSE ELSE @,
                        !.revision[n] = @ + 1]
        s2 == IF ~s1.isAsyncUpdating[n]
              THEN Logged(s1, Ev("setFunc", n, {}, s1.value[n], FALSE))
              ELSE s1
        s3 == TriggerChangeHandlers(s2, n)
    IN  ResetEach(s3, s3.dependents[n], 1)

\* The revisions the dependencies of n have in state s.
DepRevisions(s, n) == [d \in DepSet(n) |-> s.revision[d]]

\* No fetch of the node has started yet.
NoFetch(n) == [d \in DepSet(n) |-> -1]

\* History of a traced node: getFunc() is called now (line 742).
StartedAt(s, n) ==
    IF n \in DOMAIN s.fetchedAt
    THEN [s EXCEPT !.fetchedAt[n].started = DepRevisions(s, n)]
    ELSE s

\* History of a traced node: the result of its last fetch becomes its value
\* (lines 744, 746).
HeldFrom(s, n) ==
    IF n \in DOMAIN s.fetchedAt
    THEN [s EXCEPT !.fetchedAt[n].held = s.fetchedAt[n].started]
    ELSE s

\* The fetch started by reset (lines 740-742): the flag and the getFunc() call.
\* The get function of __items is _boxedGet, which sets Updating.value = true
\* before it awaits the external array-fetch (lines 1022-1023).
StartGet(s, n) ==
    LET s0 == StartedAt(s, n)
        s1 == Logged([s0 EXCEPT !.isAsyncUpdating[n] = TRUE,
                                !.inFlight[n] = @ + 1,
                                !.captured[n] = IF HasGet(n) THEN @ ELSE s.value[n]],
                     Ev("get", n, {}, "-", FALSE))
    IN  IF n = "items"
        THEN [SetOp(s1, "Updating", TRUE, FALSE) EXCEPT !.boxedGet = BoxedAwaiting]
        ELSE s1

\* reset without the reentrancy guard of lines 735-738.
ResetOp_NoGuard(s, n, force) ==
    LET s0 == Logged(s, Ev("reset", n, {}, "-", force))
        undefinedDependencies == SelectSeq(Deps(n), LAMBDA d : isUndefined(s0, d))
        someWasDirty == \E d \in DepSet(n) : isDirty(s0, d, s0.tracked[n][d])
        s1 == [s0 EXCEPT !.tracked[n] =
                 [d \in DOMAIN @ |-> IF isDirty(s0, d, @[d]) THEN s0.revision[d] ELSE @[d]]]
    IN  IF Len(undefinedDependencies) > 0
        THEN ResetEach(s0, undefinedDependencies, 1)
        ELSE IF Len(Deps(n)) > 0 /\ force # TRUE /\ ~someWasDirty
        THEN s1
        ELSE StartGet(s1, n)

\* reset that does not read its force argument.
ResetOp_IgnoreForce(s, n, force) ==
    LET s0 == Logged(s, Ev("reset", n, {}, "-", force))
        undefinedDependencies == SelectSeq(Deps(n), LAMBDA d : isUndefined(s0, d))
        someWasDirty == \E d \in DepSet(n) : isDirty(s0, d, s0.tracked[n][d])
        s1 == [s0 EXCEPT !.tracked[n] =
                 [d \in DOMAIN @ |-> IF isDirty(s0, d, @[d]) THEN s0.revision[d] ELSE @[d]]]
    IN  IF Len(undefinedDependencies) > 0
        THEN ResetEach(s0, undefinedDependencies, 1)
        ELSE IF Len(Deps(n)) > 0 /\ ~someWasDirty
        THEN s1
        ELSE IF s1.isAsyncUpdating[n]
        THEN s1
        ELSE StartGet(s1, n)

\* reset that goes on to the dirty check and the fetch after it has reset its
\* undefined dependencies.
ResetOp_NoReturn(s, n, force) ==
    LET s0 == Logged(s, Ev("reset", n, {}, "-", force))
        undefinedDependencies == SelectSeq(Deps(n), LAMBDA d : isUndefined(s0, d))
        sU == ResetEach(s0, undefinedDependencies, 1)
        someWasDirty == \E d \in DepSet(n) : isDirty(sU, d, sU.tracked[n][d])
        s1 == [sU EXCEPT !.tracked[n] =
                 [d \in DOMAIN @ |-> IF isDirty(sU, d, @[d]) THEN sU.revision[d] ELSE @[d]]]
    IN  IF Len(Deps(n)) > 0 /\ force # TRUE /\ ~someWasDirty
        THEN s1
        ELSE IF s1.isAsyncUpdating[n]
        THEN s1
        ELSE StartGet(s1, n)

\* Property.reset
ResetOp(s, n, force) ==
    LET s0 == Logged(s, Ev("reset", n, {}, "-", force))
        undefinedDependencies == SelectSeq(Deps(n), LAMBDA d : isUndefined(s0, d))
        someWasDirty == \E d \in DepSet(n) : isDirty(s0, d, s0.tracked[n][d])
        s1 == [s0 EXCEPT !.tracked[n] =
                 [d \in DOMAIN @ |-> IF isDirty(s0, d, @[d]) THEN s0.revision[d] ELSE @[d]]]
    IN  IF Len(undefinedDependencies) > 0
        THEN ResetEach(s0, undefinedDependencies, 1)
        ELSE IF Len(Deps(n)) > 0 /\ force # TRUE /\ ~someWasDirty
        THEN s1
        ELSE IF s1.isAsyncUpdating[n]
        THEN s1
        ELSE StartGet(s1, n)

\* seq.forEach(o => o._reinit())
ReinitEach(s, seq, i) ==
    IF i > Len(seq) THEN s
    ELSE ReinitEach(ReinitOp(s, seq[i]), seq, i + 1)

\* _reinit that steps the revision back by one instead of resetting it.
ReinitOp_Decrement(s, n) ==
    LET s0 == Logged(s, Ev("reinit", n, {}, "-", s.revision[n] > 0))
        s1 == ReinitEach(s0, s0.dependents[n], 1)
    IN  IF s.revision[n] > 0
        THEN [s1 EXCEPT !.tracked[n] = [d \in DOMAIN @ |-> 0],
                        !.value[n] = IF Cached(n) THEN @ ELSE Default(n, s1.capturedBox),
                        !.valueIsBox = IF n = "items" /\ ~Cached(n) THEN TRUE ELSE @,
                        !.revision[n] = @ - 1]
        ELSE s0

\* _reinit that restores the default value whatever the cached flag.
ReinitOp_IgnoreCached(s, n) ==
    LET s0 == Logged(s, Ev("reinit", n, {}, "-", s.revision[n] > 0))
        s1 == ReinitEach(s0, s0.dependents[n], 1)
    IN  IF s.revision[n] > 0
        THEN [s1 EXCEPT !.tracked[n] = [d \in DOMAIN @ |-> 0],
                        !.value[n] = Default(n, s1.capturedBox),
                        !.valueIsBox = IF n = "items" THEN TRUE ELSE @,
                        !.revision[n] = 0]
        ELSE s0

\* _reinit without the test of line 506.
ReinitOp_Unguarded(s, n) ==
    LET s0 == Logged(s, Ev("reinit", n, {}, "-", s.revision[n] > 0))
        s1 == ReinitEach(s0, s0.dependents[n], 1)
    IN  [s1 EXCEPT !.tracked[n] = [d \in DOMAIN @ |-> 0],
                   !.value[n] = IF Cached(n) THEN @ ELSE Default(n, s1.capturedBox),
                   !.valueIsBox = IF n = "items" /\ ~Cached(n) THEN TRUE ELSE @,
                   !.revision[n] = 0]

\* _reinit that leaves the revision below zero.
ReinitOp_BelowZero(s, n) ==
    LET s0 == Logged(s, Ev("reinit", n, {}, "-", s.revision[n] > 0))
        s1 == ReinitEach(s0, s0.dependents[n], 1)
    IN  IF s.revision[n] > 0
        THEN [s1 EXCEPT !.tracked[n] = [d \in DOMAIN @ |-> 0],
                        !.value[n] = IF Cached(n) THEN @ ELSE Default(n, s1.capturedBox),
                        !.valueIsBox = IF n = "items" /\ ~Cached(n) THEN TRUE ELSE @,
                        !.revision[n] = -1]
        ELSE s0

\* Property._reinit
ReinitOp(s, n) ==
    LET s0 == Logged(s, Ev("reinit", n, {}, "-", s.revision[n] > 0))
        s1 == ReinitEach(s0, s0.dependents[n], 1)
    IN  IF s.revision[n] > 0
        THEN [s1 EXCEPT !.tracked[n] = [d \in DOMAIN @ |-> 0],
                        !.value[n] = IF Cached(n) THEN @ ELSE Default(n, s1.capturedBox),
                        !.valueIsBox = IF n = "items" /\ ~Cached(n) THEN TRUE ELSE @,
                        !.revision[n] = 0]
        ELSE s0

\* ----------------------------------------------------------------- Init
\* The state after the constructors have run; initial is args.initial of the
\* Collection; traced are the nodes whose fetches the history records.
InitTracing(initial, traced) ==
    /\ constructed = [n \in Node |-> IF Deps(n) = << >> THEN "live" ELSE "no"]
    /\ revision = [n \in Node |-> 0]
    /\ value = [n \in Node |-> Default(n, initial)]
    /\ tracked = [n \in Node |-> [d \in DepSet(n) |-> 0]]
    /\ dependents = [n \in Node |-> << >>]
    /\ isAsyncUpdating = [n \in Node |-> FALSE]
    /\ changeHandlers = [n \in Node |-> {}]
    /\ inFlight = [n \in Node |-> 0]
    /\ captured = [n \in Node |-> IF HasGet(n) THEN "-" ELSE Default(n, initial)]
    /\ settling = [n \in Node |-> 0]
    /\ capturedBox = initial
    /\ valueIsBox = TRUE
    /\ boxedGet = BoxedIdle
    /\ fetchedAt = [n \in traced |-> [started |-> NoFetch(n), held |-> NoFetch(n)]]
    /\ log = << Ev("init", "A", {}, "-", FALSE) >>

\* The state after construction, no node traced.
InitWith(initial) == InitTracing(initial, {})

Init == InitWith(<< >>)

CollInit == \E initial \in InitialArrays : InitWith(initial)

\* ------------------------------------------------------------ scheduling
\* User code calls the operations of live nodes (a disposed node is torn down
\* with its aggregate and not used again; its pending callbacks still run).
\* User code runs only when no microtask is queued: a chain whose callback
\* has run still owes its .finally, and the default getFunc
\* (async () => this._value) is resolved at once.
UserTurn ==
    /\ \A n \in Node : settling[n] = 0 /\ (inFlight[n] > 0 => HasGet(n))
    /\ boxedGet.stage \in {"idle", "awaiting"}

\* --------------------------------------------------------------- actions
\* A constructor that registers the node with its first dependency only.
Construct_FirstOnly(n) ==
    /\ UserTurn
    /\ constructed[n] = "no"
    /\ \A d \in DepSet(n) : constructed[d] = "live"
    /\ constructed' = [constructed EXCEPT ![n] = "live"]
    /\ tracked' = [tracked EXCEPT ![n] = [d \in DepSet(n) |-> revision[d]]]
    /\ dependents' = [m \in Node |->
                        IF Deps(n) # << >> /\ m = Deps(n)[1]
                        THEN Append(dependents[m], n) ELSE dependents[m]]
    /\ log' = << Ev("construct", n, {}, "-", FALSE) >>
    /\ UNCHANGED << revision, value, isAsyncUpdating, changeHandlers, inFlight,
                    captured, settling, capturedBox, fetchedAt, valueIsBox, boxedGet >>

\* new Property({dependencies: Deps(n), ...}) : Observable.constructor
Construct(n) ==
    /\ UserTurn
    /\ constructed[n] = "no"
    /\ \A d \in DepSet(n) : constructed[d] = "live"
    /\ constructed' = [constructed EXCEPT ![n] = "live"]
    /\ tracked' = [tracked EXCEPT ![n] = [d \in DepSet(n) |-> revision[d]]]
    /\ dependents' = [m \in Node |->
                        IF m \in DepSet(n) THEN Append(dependents[m], n) ELSE dependents[m]]
    /\ log' = << Ev("construct", n, {}, "-", FALSE) >>
    /\ UNCHANGED << revision, value, isAsyncUpdating, changeHandlers, inFlight,
                    captured, settling, capturedBox, fetchedAt, valueIsBox, boxedGet >>

\* observe that calls reset() whether or not the node is undefined.
Observe_AlwaysReset(n, h) ==
    /\ UserTurn
    /\ constructed[n] = "live"
    /\ LET s0 == Cur(Ev("observe", n, {h}, "-", revision[n] < 1))
           s1 == [s0 EXCEPT !.changeHandlers[n] = @ \cup {h}]
       IN  Commit(ResetOp(s1, n, FALSE))
    /\ UNCHANGED << constructed, settling >>

\* ObservableOf.observe(changeHandler)
Observe(n, h) ==
    /\ UserTurn
    /\ constructed[n] = "live"
    /\ LET s0 == Cur(Ev("observe", n, {h}, "-", revision[n] < 1))
           s1 == [s0 EXCEPT !.changeHandlers[n] = @ \cup {h}]
       IN  Commit(IF isUndefined(s1, n)
                  THEN ResetOp(s1, n, FALSE)
                  ELSE Logged(s1, Ev("handlers", n, {h}, s1.value[n], FALSE)))
    /\ UNCHANGED << constructed, settling >>

\* end() that runs _reinit() whether or not handlers remain.
End_ReinitAlways(n, h) ==
    /\ UserTurn
    /\ constructed[n] = "live"
    /\ h \in changeHandlers[n]
    /\ LET s0 == Cur(Ev("end", n, {h}, "-", revision[n] < 1))
           s1 == [s0 EXCEPT !.changeHandlers[n] = @ \ {h}]
       IN  Commit(ReinitOp(s1, n))
    /\ UNCHANGED << constructed, settling >>

\* Observation.end()
End(n, h) ==
    /\ UserTurn
    /\ constructed[n] = "live"
    /\ h \in changeHandlers[n]
    /\ LET s0 == Cur(Ev("end", n, {h}, "-", revision[n] < 1))
           s1 == [s0 EXCEPT !.changeHandlers[n] = @ \ {h}]
       IN  Commit(IF Cardinality(s1.changeHandlers[n]) < 1
                  THEN ReinitOp(s1, n)
                  ELSE s1)
    /\ UNCHANGED << constructed, settling >>

\* property.set(v, byRef) / property.value = v, called by user code
Set(n, v, byRef) ==
    /\ UserTurn
    /\ constructed[n] = "live"
    /\ revision[n] < MaxRev
    /\ Commit(SetOp(Cur(Ev("set", n, {}, v, byRef)), n, v, byRef))
    /\ UNCHANGED << constructed, settling >>

\* property.reset(force), called by user code or by the default event action
Reset(n, force) ==
    /\ UserTurn
    /\ constructed[n] = "live"
    /\ Commit(ResetOp(Cur(Ev("callReset", n, {}, "-", force)), n, force))
    /\ UNCHANGED << constructed, settling >>

\* dispose that removes the node from its first dependency only.
Dispose_FirstOnly(n) ==
    /\ UserTurn
    /\ constructed[n] = "live"
    /\ Deps(n) # << >>
    /\ changeHandlers[n] = {}
    /\ constructed' = [constructed EXCEPT ![n] = "disposed"]
    /\ dependents' = [m \in Node |->
                        IF m = Deps(n)[1]
                        THEN SelectSeq(dependents[m], LAMBDA x : x # n)
                        ELSE dependents[m]]
    /\ log' = << Ev("dispose", n, {}, "-", FALSE) >>
    /\ UNCHANGED << revision, value, tracked, isAsyncUpdating,
                    changeHandlers, inFlight, captured, settling, capturedBox, fetchedAt,
                    valueIsBox, boxedGet >>

\* Observable.dispose(), called by user code once it has ended its
\* observations of the node.
Dispose(n) ==
    /\ UserTurn
    /\ constructed[n] = "live"
    /\ Deps(n) # << >>
    /\ changeHandlers[n] = {}
    /\ constructed' = [constructed EXCEPT ![n] = "disposed"]
    /\ dependents' = [m \in Node |->
                        IF m \in DepSet(n)
                        THEN SelectSeq(dependents[m], LAMBDA x : x # n)
                        ELSE dependents[m]]
    /\ log' = << Ev("dispose", n, {}, "-", FALSE) >>
    /\ UNCHANGED << revision, value, tracked, isAsyncUpdating,
                    changeHandlers, inFlight, captured, settling, capturedBox, fetchedAt,
                    valueIsBox, boxedGet >>

\* A .then callback with the truthiness test only.
Commits_TruthyOnly(kind) == kind = "truthy"

\* A .then callback that commits every result but null.
Commits_NonNull(kind) == kind # "null"

\* A .then callback that commits whatever the fetch resolved with.
Commits_Always(kind) == TRUE

\* The value is committed by the .then callback of reset (lines 743-749).
Commits(kind) == kind = "truthy" \/ kind \in {"zero", "bigzero"}

\* getFunc() resolved with r: the .then callback runs.
FetchResolve(n, r) ==
    /\ inFlight[n] > 0
    /\ (n \in GraphNode /\ Commits(r.kind)) => revision[n] < MaxRev
    /\ LET s0 == Cur(Ev("resolve", n, {}, r.val, Commits(r.kind)))
           s1 == [s0 EXCEPT !.inFlight[n] = @ - 1,
                            !.boxedGet = IF n = "items" THEN BoxedIdle ELSE @]
       IN  Commit(IF Commits(r.kind)
                  THEN SetOp(HeldFrom(s1, n), n, r.val, FALSE)
                  ELSE s1)
    /\ settling' = [settling EXCEPT ![n] = @ + 1]
    /\ UNCHANGED constructed

\* An external get function resolves with any of GetResults.
ResolveGet(n) ==
    /\ n \in GraphNode
    /\ HasGet(n)
    /\ \E r \in GetResults(n) : FetchResolve(n, r)

\* An external get function resolves with any of FetchResults.
ResolveGetAny(n) ==
    /\ n \in GraphNode
    /\ HasGet(n)
    /\ \E r \in FetchResults : FetchResolve(n, r)

\* An external get function resolves with a value the .then callback
\* commits (lines 744, 746).
ResolveGetValue(n) ==
    /\ n \in GraphNode
    /\ HasGet(n)
    /\ \E r \in {x \in GetResults(n) : Commits(x.kind)} : FetchResolve(n, r)

\* The default getFunc resolves with the value read when it was called.
ResolveDefaultGet(n) ==
    /\ ~HasGet(n)
    /\ FetchResolve(n, [kind |-> KindOf(n, captured[n]), val |-> captured[n]])

\* getFunc() rejected: the .catch callback runs (console.error only).
RejectGet(n) ==
    /\ HasGet(n)
    /\ inFlight[n] > 0
    /\ n = "items" => boxedGet.stage = "thrown"
    /\ boxedGet' = (IF n = "items" THEN BoxedIdle ELSE boxedGet)
    /\ inFlight' = [inFlight EXCEPT ![n] = @ - 1]
    /\ settling' = [settling EXCEPT ![n] = @ + 1]
    /\ log' = << Ev("reject", n, {}, "-", FALSE), Ev("console.error", n, {}, "-", FALSE) >>
    /\ UNCHANGED << constructed, revision, value, tracked, dependents,
                    isAsyncUpdating, changeHandlers, captured, capturedBox, fetchedAt,
                    valueIsBox >>

\* The .finally callback of reset (line 753).
Finally(n) ==
    /\ settling[n] > 0
    /\ settling' = [settling EXCEPT ![n] = @ - 1]
    /\ isAsyncUpdating' = [isAsyncUpdating EXCEPT ![n] = FALSE]
    /\ log' = << Ev("finally", n, {}, "-", FALSE) >>
    /\ UNCHANGED << constructed, revision, value, tracked, dependents,
                    changeHandlers, inFlight, captured, capturedBox, fetchedAt, valueIsBox,
                    boxedGet >>

\* ------------------------------------------------------------ Collection
\* Collection._box of one element: a Property whose default is the mapped
\* element; without a map function its value is the element.
Box(m) == m

\* Property.model of a boxed element (lines 527-537).
ModelOf(element) == element

\* Collection.size
size(items) == Len(items)

\* validatedFocus that also rejects the index -1 of an empty array.
validatedFocus_NoneIsIllegal(items, index) ==
    IF index < 0 \/ index >= Len(items)
    THEN IF Len(items) < 1
         THEN [throws |-> TRUE, index |-> index]
         ELSE [throws |-> FALSE, index |-> Len(items) - 1]
    ELSE [throws |-> FALSE, index |-> index]

\* validatedFocus that clamps to the first index.
validatedFocus_ClampFirst(items, index) ==
    IF index < -1 \/ index >= Len(items)
    THEN IF Len(items) < 1
         THEN [throws |-> TRUE, index |-> index]
         ELSE [throws |-> FALSE, index |-> 0]
    ELSE [throws |-> FALSE, index |-> index]

\* Collection.validatedFocus: the index it returns, or that it throws.
validatedFocus(items, index) ==
    IF index < -1 \/ index >= Len(items)
    THEN IF Len(items) < 1
         THEN [throws |-> TRUE, index |-> index]
         ELSE [throws |-> FALSE, index |-> Len(items) - 1]
    ELSE [throws |-> FALSE, index |-> index]

\* Collection.CurrentAsIndex
CurrentAsIndex(items, focus) == validatedFocus(items, focus)

\* Collection.CurrentAsModel (null is "null")
CurrentAsModel(items, focus) ==
    LET f == validatedFocus(items, focus)
    IN  IF f.throws
        THEN [throws |-> TRUE, model |-> "null"]
        ELSE [throws |-> FALSE,
              model |-> IF f.index >= 0 THEN ModelOf(items[f.index + 1]) ELSE "null"]

\* push, splice, ... change the array __items holds in place; while that array
\* is the one the constructor captured, the default generator returns the
\* changed array.
MutateItems(s, arr) ==
    [s EXCEPT !.value["items"] = arr,
              !.capturedBox = IF s.valueIsBox THEN arr ELSE @]

RemoveAt(arr, i) == [k \in 1..(Len(arr) - 1) |-> IF k < i THEN arr[k] ELSE arr[k + 1]]

\* Collection.add(value)
Add(m) ==
    /\ UserTurn
    /\ Len(value["items"]) < MaxLen
    /\ LET s0 == Cur(Ev("add", "items", {}, m, FALSE))
           s1 == Logged(s0, Ev("addFunc", "items", {}, m, FALSE))
           s2 == MutateItems(s1, Append(s1.value["items"], Box(m)))
           index == Len(s2.value["items"])
           s3 == SetOp(s2, "focus", index, FALSE)
       IN  Commit(TriggerChangeHandlers(s3, "items"))
    /\ UNCHANGED << constructed, settling >>

\* The body of Collection.deleteIndex(index) (lines 1200-1213).
DeleteIndexOp(s, index) ==
    LET property == s.value["items"][index + 1]
        s1 == MutateItems(s, RemoveAt(s.value["items"], index + 1))
        s2 == SetOp(s1, "focus", IF Len(s1.value["items"]) < 1 THEN -1 ELSE 0, FALSE)
        s3 == Logged(s2, Ev("deleteFunc", "items", {}, ModelOf(property), FALSE))
    IN  TriggerChangeHandlers(s3, "items")

RECURSIVE DeleteLoop(_, _, _)

\* The loop of Collection.delete(predicate) from index i on, for the
\* predicate model => model === m: the index advances after a deletion too.
DeleteLoop(s, m, i) ==
    IF i < Len(s.value["items"])
    THEN IF ModelOf(s.value["items"][i + 1]) = m
         THEN DeleteLoop(DeleteIndexOp(s, i), m, i + 1)
         ELSE DeleteLoop(s, m, i + 1)
    ELSE s

\* Collection.delete(predicate)
Delete(m) ==
    /\ UserTurn
    /\ Commit(DeleteLoop(Cur(Ev("delete", "items", {}, m, FALSE)), m, 0))
    /\ UNCHANGED << constructed, settling >>

\* deleteIndex that always selects the first index afterwards.
DeleteIndex_FocusFirst(index) ==
    /\ UserTurn
    /\ index >= 0
    /\ index < Len(value["items"])
    /\ LET s0 == Cur(Ev("deleteIndex", "items", {}, index, FALSE))
           property == s0.value["items"][index + 1]
           s1 == MutateItems(s0, RemoveAt(s0.value["items"], index + 1))
           s2 == SetOp(s1, "focus", 0, FALSE)
           s3 == Logged(s2, Ev("deleteFunc", "items", {}, ModelOf(property), FALSE))
       IN  Commit(TriggerChangeHandlers(s3, "items"))
    /\ UNCHANGED << constructed, settling >>

\* Collection.deleteIndex(index), for an index of the array
DeleteIndex(index) ==
    /\ UserTurn
    /\ index >= 0
    /\ index < Len(value["items"])
    /\ LET s0 == Cur(Ev("deleteIndex", "items", {}, index, FALSE))
           property == s0.value["items"][index + 1]
           s1 == MutateItems(s0, RemoveAt(s0.value["items"], index + 1))
           s2 == SetOp(s1, "focus", IF Len(s1.value["items"]) < 1 THEN -1 ELSE 0, FALSE)
           s3 == Logged(s2, Ev("deleteFunc", "items", {}, ModelOf(property), FALSE))
       IN  Commit(TriggerChangeHandlers(s3, "items"))
    /\ UNCHANGED << constructed, settling >>

\* Collection.SetCurrentByIndex(index)
SetCurrentByIndex(index) ==
    /\ UserTurn
    /\ LET s0 == Cur(Ev("SetCurrentByIndex", "items", {}, index, FALSE))
           inRange == index >= 0 /\ index < Len(s0.value["items"])
       IN  Commit(SetOp(s0, "focus", IF inRange THEN index ELSE -1, FALSE))
    /\ UNCHANGED << constructed, settling >>

\* The getter Collection.CurrentAsIndex, read by user code: the index
\* validatedFocus returns for the stored focus, or that it throws.
GetCurrentAsIndex ==
    /\ UserTurn
    /\ LET r == CurrentAsIndex(value["items"], value["focus"])
       IN  log' = << Ev("CurrentAsIndex", "items", {}, r.index, r.throws) >>
    /\ UNCHANGED << constructed, revision, value, tracked, dependents,
                    isAsyncUpdating, changeHandlers, inFlight, captured, settling,
                    capturedBox, fetchedAt, valueIsBox, boxedGet >>

\* _boxedGet resumes after await this.getFunc() (lines 1023-1026): the raw
\* response (null, or an array) is boxed and Updating.value = false.
BoxedGetReturns(isNull, raw) ==
    /\ boxedGet.stage = "awaiting"
    /\ LET s0 == Cur(Ev("boxedGetReturns", "items", {}, raw, isNull))
           s1 == SetOp(s0, "Updating", FALSE, FALSE)
       IN  Commit([s1 EXCEPT !.boxedGet =
                      [stage |-> "returned", isNull |-> isNull, arr |-> raw]])
    /\ UNCHANGED << constructed, settling >>

\* await this.getFunc() throws: _boxedGet rejects at line 1023.
BoxedGetThrows ==
    /\ boxedGet.stage = "awaiting"
    /\ boxedGet' = [boxedGet EXCEPT !.stage = "thrown"]
    /\ log' = << Ev("boxedGetThrows", "items", {}, "-", FALSE) >>
    /\ UNCHANGED << constructed, revision, value, tracked, dependents,
                    isAsyncUpdating, changeHandlers, inFlight, captured, settling,
                    capturedBox, fetchedAt, valueIsBox >>

\* The .then callback of __items.reset runs with what _boxedGet returned.
ResolveItems ==
    /\ boxedGet.stage = "returned"
    /\ FetchResolve("items",
                    [kind |-> IF boxedGet.isNull THEN "null" ELSE "truthy",
                     val |-> boxedGet.arr])

CollNext ==
    \/ \E m \in Models : Add(m)
    \/ \E index \in 0..(MaxLen - 1) : DeleteIndex(index)
    \/ \E m \in Models : Delete(m)
    \/ \E index \in 0..MaxLen : SetCurrentByIndex(index)
    \/ GetCurrentAsIndex
    \/ \E h \in HandlersOf("items") : Observe("items", h)
    \/ \E h \in HandlersOf("items") : End("items", h)
    \/ \E force \in ForceArgs("items") : Reset("items", force)
    \/ BoxedGetReturns(TRUE, << >>)
    \/ \E raw \in FetchArrays : BoxedGetReturns(FALSE, raw)
    \/ BoxedGetThrows
    \/ ResolveItems
    \/ RejectGet("items")
    \/ Finally("items")

CollSpec == CollInit /\ [][CollNext]_vars

Next ==
    \/ \E n \in GraphNode : Construct(n)
    \/ \E n \in GraphNode : \E h \in HandlersOf(n) : Observe(n, h)
    \/ \E n \in GraphNode : \E h \in HandlersOf(n) : End(n, h)
    \/ \E n \in SetNodes, v \in SetValues, byRef \in BOOLEAN : Set(n, v, byRef)
    \/ \E n \in GraphNode : \E force \in ForceArgs(n) : Reset(n, force)
    \/ \E n \in GraphNode : Dispose(n)
    \/ \E n \in GraphNode : ResolveGet(n)
    \/ \E n \in GraphNode : ResolveDefaultGet(n)
    \/ \E n \in GraphNode : RejectGet(n)
    \/ \E n \in GraphNode : Finally(n)

Spec == Init /\ [][Next]_vars

\* The single Property A, observed, set and reset by user code, whose get
\* function resolves with any kind of value.
FetchNext ==
    \/ \E h \in HandlersOf("A") : Observe("A", h)
    \/ \E h \in HandlersOf("A") : End("A", h)
    \/ \E v \in SetValues, byRef \in BOOLEAN : Set("A", v, byRef)
    \/ \E force \in ForceArgs("A") : Reset("A", force)
    \/ ResolveGetAny("A")
    \/ RejectGet("A")
    \/ Finally("A")

FetchSpec == Init /\ [][FetchNext]_vars

\* The graph with the fetches of P traced: P is constructed over A and B and
\* observed, A is set, P is reset, and the fetches settle; no observation is
\* ended and no node is disposed.
InvalInit == InitTracing(<< >>, {"P"})

InvalNext ==
    \/ Construct("P")
    \/ \E n \in GraphNode : \E h \in HandlersOf(n) : Observe(n, h)
    \/ \E v \in SetValues, byRef \in BOOLEAN : Set("A", v, byRef)
    \/ \E force \in ForceArgs("P") : Reset("P", force)
    \/ \E n \in GraphNode : ResolveGet(n)
    \/ \E n \in GraphNode : ResolveDefaultGet(n)
    \/ \E n \in GraphNode : RejectGet(n)
    \/ \E n \in GraphNode : Finally(n)

InvalSpec == InvalInit /\ [][InvalNext]_vars

\* Lazy activation: user code constructs P, observes nodes and sets A; no
\* observation is ended, and every get operation resolves with a value that
\* is committed. The callbacks are microtasks and the fetches resolve: once
\* enabled they run, whatever user code does.
LazyNext ==
    \/ Construct("P")
    \/ \E n \in GraphNode : \E h \in HandlersOf(n) : Observe(n, h)
    \/ \E v \in SetValues, byRef \in BOOLEAN : Set("A", v, byRef)
    \/ \E n \in GraphNode : ResolveGetValue(n)
    \/ \E n \in GraphNode : ResolveDefaultGet(n)
    \/ \E n \in GraphNode : Finally(n)

LazyFairness ==
    \A n \in GraphNode :
        /\ WF_vars(ResolveGetValue(n))
        /\ WF_vars(ResolveDefaultGet(n))
        /\ WF_vars(Finally(n))

LazySpec == Init /\ [][LazyNext]_vars /\ LazyFairness

\* ------------------------------------------------------ reading the log
\* The call that made the last turn.
Op == log[1]

\* How many times getFunc() of n was invoked in a turn with log l.
GetsIn(l, n) == Cardinality({i \in DOMAIN l : l[i].e = "get" /\ l[i].node = n})

\* The handler invocations of node n in a turn with log l.
HandlerCalls(l, n) == {i \in DOMAIN l : l[i].e = "handlers" /\ l[i].node = n}

\* _reinit() ran on the Defined node n in a turn with log l.
ReinitIn(l, n) == \E i \in DOMAIN l : l[i].e = "reinit" /\ l[i].node = n /\ l[i].flag

AllDepsDefined(n) == \A d \in DepSet(n) : revision[d] >= 1

NoDepDirty(n) == \A d \in DepSet(n) : revision[d] <= tracked[n][d]

\* ------------------------------------------------------------------- C1
\* C1 (as claimed): for every node the revision never decreases, whatever
\* the step.
C1_NeverDecreases == [][\A n \in GraphNode : revision'[n] >= revision[n]]_vars

\* C1 (amended): the revision of a node decreases only in a turn in which an
\* observation is ended and _reinit() runs on that node while it is Defined,
\* and it is then 0; every other step leaves it equal or greater.
C1_DecreasesOnlyByReinit ==
    [][\A n \in GraphNode :
          revision'[n] < revision[n] =>
             /\ revision'[n] = 0
             /\ log'[1].e = "end"
             /\ ReinitIn(log', n)]_vars

\* Ending the observation of A has run _reinit() on A and, by the cascade, on
\* its Defined dependent P.
C1_Witness ==
    /\ Op.e = "end"
    /\ ReinitIn(log, "A")
    /\ revision["A"] = 0
    /\ \E i \in DOMAIN log : log[i].e = "reinit" /\ log[i].node = "P" /\ log[i].flag

\* ------------------------------------------------------------------- C2
\* C2: in every reachable state each Property has at most one get operation
\* in flight.
C2_OneFetchInFlight == \A n \in GraphNode : inFlight[n] <= 1

\* A reset() reached a node whose fetch was in flight and started nothing.
C2_Witness ==
    \E i \in DOMAIN log :
        /\ log[i].e = "reset"
        /\ log[i].node = "P"
        /\ log[i].flag
        /\ inFlight["P"] = 1
        /\ GetsIn(log, "P") = 0

\* ------------------------------------------------------------------- C3
\* C3 (the claim, in the case where no fetch of the node is already in
\* flight): observe(h) on an Undefined node none of whose dependencies is
\* Undefined starts exactly one fetch of that node at once.
C3_ObserveUndefinedFetchesOnce ==
    [][\A n \in GraphNode :
          ( /\ log'[1].e = "observe"
            /\ log'[1].node = n
            /\ revision[n] = 0
            /\ ~isAsyncUpdating[n]
            /\ AllDepsDefined(n) )
          => GetsIn(log', n) = 1]_vars

\* ------------------------------------------------------------------- C4
\* C4 (as claimed): for the Property with default 0 and no get function,
\* observe(h) while Undefined invokes h with 0 in the same turn, and the
\* completion of the fetch it started leaves the revision 0.
C4_DefaultNeverCommitted ==
    /\ (Op.e = "observe" /\ Op.node = "B" /\ Op.flag)
          => \E i \in HandlerCalls(log, "B") : log[i].hs = Op.hs /\ log[i].val = "0"
    /\ (Op.e = "resolve" /\ Op.node = "B") => revision["B"] = 0

\* C4 (amended): for the Property with default 0 and no get function,
\* observe(h) while Undefined invokes no handler in that turn and starts one
\* fetch by the default get operation; when that fetch completes, the value 0
\* it resolved with is committed through set(): the revision increases by 1
\* and every registered handler is then invoked with 0.
C4_DefaultCommittedByDefaultGet ==
    [][ /\ ( log'[1].e = "observe" /\ log'[1].node = "B" /\ revision["B"] = 0 )
           => ( /\ HandlerCalls(log', "B") = {}
                /\ GetsIn(log', "B") = 1
                /\ revision'["B"] = 0 )
        /\ ( log'[1].e = "resolve" /\ log'[1].node = "B" )
           => ( /\ revision'["B"] = revision["B"] + 1
                /\ value'["B"] = "0"
                /\ \E i \in HandlerCalls(log', "B") :
                      log'[i].hs = changeHandlers["B"] /\ log'[i].val = "0" )
      ]_vars

\* The fetch started by the first observe(h) has completed.
C4_Witness ==
    /\ Op.e = "resolve"
    /\ Op.node = "B"
    /\ revision["B"] = 1
    /\ changeHandlers["B"] = {"h1"}
    /\ \E i \in HandlerCalls(log, "B") : log[i].hs = {"h1"} /\ log[i].val = "0"

\* ------------------------------------------------------------------- C5
\* C5 (the claim, in the case where no fetch of P is already in flight): in
\* the turn in which a dependency D of the live Property P goes from
\* Undefined to Defined, the cascaded P.reset() starts exactly one fetch of P
\* if all of P's dependencies are then Defined, and none otherwise.
C5_FetchOnceWhenDepsDefined ==
    [][\A p \in GraphNode : \A d \in DepSet(p) :
          ( /\ constructed[p] = "live"
            /\ ~isAsyncUpdating[p]
            /\ revision[d] = 0
            /\ revision'[d] >= 1 )
          => GetsIn(log', p) = (IF \A e \in DepSet(p) : revision'[e] >= 1 THEN 1 ELSE 0)]_vars

\* ------------------------------------------------------------------- C6
\* C6: for a Property P with at least one dependency, if every dependency is
\* Defined and none has a revision greater than the one P tracks for it, a
\* non-forced P.reset() starts no fetch and leaves P's value, revision,
\* tracked revisions and Updating flag (and every other node) unchanged.
C6_NoRedundantFetch ==
    [][\A p \in GraphNode :
          ( /\ log'[1].e \in {"callReset", "observe"}
            /\ log'[1].node = p
            /\ (log'[1].e = "callReset" => ~log'[1].flag)
            /\ (log'[1].e = "observe" => revision[p] = 0)
            /\ Deps(p) # << >>
            /\ AllDepsDefined(p)
            /\ NoDepDirty(p) )
          => ( /\ GetsIn(log', p) = 0
               /\ UNCHANGED << revision, value, tracked, isAsyncUpdating, inFlight,
                               captured, dependents, settling, constructed >> )]_vars

\* A non-forced reset() of P, idle and with clean Defined dependencies, has
\* returned without a fetch.
C6_Witness ==
    /\ Op.e = "callReset"
    /\ Op.node = "P"
    /\ ~Op.flag
    /\ AllDepsDefined("P")
    /\ NoDepDirty("P")
    /\ ~isAsyncUpdating["P"]
    /\ revision["P"] >= 1
    /\ Len(log) = 2

\* ------------------------------------------------------------------- C7
\* C7: ending the last observation on a Defined node runs _reinit():
\* afterwards the revision is 0 and the value is the default value when the
\* node is uncached, the value held before end() when it is cached.
C7_EndLastObservationReinits ==
    [][\A n \in GraphNode :
          ( /\ log'[1].e = "end"
            /\ log'[1].node = n
            /\ changeHandlers'[n] = {}
            /\ revision[n] >= 1 )
          => ( /\ ReinitIn(log', n)
               /\ revision'[n] = 0
               /\ value'[n] = (IF Cached(n) THEN value[n] ELSE Default(n, capturedBox)) )]_vars

\* The last observation of the cached node A ended while it held a value
\* other than its default.
C7_Witness ==
    /\ Op.e = "end"
    /\ Op.node = "A"
    /\ ~Op.flag
    /\ changeHandlers["A"] = {}
    /\ revision["A"] = 0
    /\ value["A"] # Default("A", capturedBox)

\* ------------------------------------------------------------------- C8
\* C8: observe(h) on a Defined node invokes h exactly once, in the same
\* turn, with the node's current value; it starts no fetch and changes
\* neither revisions nor Updating flags.
C8_ObserveDefinedReplays ==
    [][\A n \in GraphNode :
          ( /\ log'[1].e = "observe"
            /\ log'[1].node = n
            /\ revision[n] >= 1 )
          => ( /\ Len(log') = 2
               /\ log'[2] = Ev("handlers", n, log'[1].hs, value[n], FALSE)
               /\ Cardinality(log'[1].hs) = 1
               /\ changeHandlers'[n] = changeHandlers[n] \cup log'[1].hs
               /\ UNCHANGED << revision, value, isAsyncUpdating, inFlight, tracked >> )]_vars

\* observe(h2) on the Defined node P, which h1 already observes, has replayed
\* P's value to h2 only.
C8_Witness ==
    /\ Op.e = "observe"
    /\ Op.node = "P"
    /\ Op.hs = {"h2"}
    /\ ~Op.flag
    /\ changeHandlers["P"] = {"h1", "h2"}
    /\ Len(log) = 2
    /\ log[2].e = "handlers"
    /\ log[2].hs = {"h2"}
    /\ log[2].val = value["P"]

\* ------------------------------------------------------------------- C9
\* C9: every call of set() on a node (by user code, or by the completion of
\* its fetch) increases that node's revision by exactly 1, whether or not the
\* node is Updating, and no other operation increases a revision.
C9_SetBumpsRevisionByOne ==
    [][\A n \in GraphNode :
          LET setCalled == /\ log'[1].node = n
                           /\ \/ log'[1].e = "set"
                              \/ log'[1].e = "resolve" /\ log'[1].flag
          IN  /\ setCalled => revision'[n] = revision[n] + 1
              /\ revision'[n] > revision[n] => setCalled]_vars

\* set() was called by user code on a Defined node whose fetch was in flight.
C9_Witness ==
    /\ Op.e = "set"
    /\ Op.node = "A"
    /\ isAsyncUpdating["A"]
    /\ inFlight["A"] = 1
    /\ revision["A"] = 2

\* ------------------------------------------------------------------ C10
\* C10: on a Collection holding n elements (n >= 0), add(m) yields
\* size == n+1, CurrentAsIndex == n and CurrentAsModel == m, and neither
\* accessor throws.
C10_AddSelectsAppended ==
    [][\A m \in Models :
          (log'[1].e = "add" /\ log'[1].val = m)
          => LET n == size(value["items"])
             IN  /\ size(value'["items"]) = n + 1
                 /\ CurrentAsIndex(value'["items"], value'["focus"])
                       = [throws |-> FALSE, index |-> n]
                 /\ CurrentAsModel(value'["items"], value'["focus"])
                       = [throws |-> FALSE, model |-> m]]_vars

\* add(m1) has appended a third element to a Collection whose last element
\* is another model.
C10_Witness ==
    /\ Op.e = "add"
    /\ Op.val = "m1"
    /\ size(value["items"]) = 3
    /\ value["items"][2] = "m2"
    /\ CurrentAsIndex(value["items"], value["focus"]).index = 2
    /\ CurrentAsModel(value["items"], value["focus"]).model = "m1"

\* ------------------------------------------------------------------ C11
\* C11: deleteIndex(i) with 0 <= i < n on a Collection of n elements leaves
\* size n-1 and the focus -1 if the Collection is then empty and 0 otherwise;
\* when it is empty, CurrentAsIndex is -1 and CurrentAsModel is null and
\* neither accessor throws.
C11_DeleteIndexResetsFocus ==
    [][log'[1].e = "deleteIndex"
          => LET n == size(value["items"])
             IN  /\ log'[1].val >= 0
                 /\ log'[1].val < n
                 /\ size(value'["items"]) = n - 1
                 /\ value'["focus"] = (IF n - 1 = 0 THEN -1 ELSE 0)
                 /\ n - 1 = 0 =>
                       /\ CurrentAsIndex(value'["items"], value'["focus"])
                             = [throws |-> FALSE, index |-> -1]
                       /\ CurrentAsModel(value'["items"], value'["focus"])
                             = [throws |-> FALSE, model |-> "null"]]_vars

\* deleteIndex(0) has emptied a Collection of one element.
C11_Witness ==
    /\ Op.e = "deleteIndex"
    /\ Op.val = 0
    /\ size(value["items"]) = 0
    /\ value["focus"] = -1
    /\ \E i \in DOMAIN log : log[i].e = "deleteFunc"

\* ------------------------------------------------------------------ C12
\* The indices validatedFocus is applied to.
FocusArgs == -3..(MaxLen + 2)

\* C12: on a Collection of size n, validatedFocus(i) returns i when
\* -1 <= i < n; for i outside that range it returns n-1 if n >= 1 and throws
\* if n = 0; it throws in no other case.  Checked for every array the
\* Collection comes to hold and, when the getter CurrentAsIndex is read, for
\* the stored focus.
C12_ValidatedFocusClamps ==
    [][ /\ \A i \in FocusArgs :
              LET n == size(value'["items"])
                  r == validatedFocus(value'["items"], i)
                  inRange == -1 <= i /\ i < n
              IN  /\ inRange => r = [throws |-> FALSE, index |-> i]
                  /\ (~inRange /\ n >= 1) => r = [throws |-> FALSE, index |-> n - 1]
                  /\ (~inRange /\ n = 0) => r.throws
                  /\ r.throws => (n = 0 /\ i # -1)
        /\ log'[1].e = "CurrentAsIndex"
              => LET n == size(value["items"])
                     i == value["focus"]
                 IN  /\ log'[1].flag = (n = 0 /\ i # -1)
                     /\ ~log'[1].flag =>
                           log'[1].val = (IF -1 <= i /\ i < n THEN i ELSE n - 1)
      ]_vars

\* CurrentAsIndex was read on an empty Collection whose stored focus is an
\* index, and it threw.
C12_Witness ==
    /\ Op.e = "CurrentAsIndex"
    /\ Op.flag
    /\ size(value["items"]) = 0
    /\ value["focus"] >= 0

\* ------------------------------------------------------------------ C13
\* C13: in every reachable state, for every node, isUndefined is true if
\* and only if the revision is 0, and the revision is never negative.
C13_UndefinedIffRevisionZero ==
    \A n \in Node :
        /\ isUndefined([revision |-> revision], n) <=> (revision[n] = 0)
        /\ revision[n] >= 0

\* A is Undefined again after the end of its last observation while B is
\* Defined.
C13_Witness ==
    /\ Op.e = "end"
    /\ Op.node = "A"
    /\ ReinitIn(log, "A")
    /\ isUndefined([revision |-> revision], "A")
    /\ ~isUndefined([revision |-> revision], "B")

\* ------------------------------------------------------------------ C14
\* The positions after i at which reset() of node d was called in a turn
\* with log l.
ResetsAfter(l, i, d) == {j \in DOMAIN l : j > i /\ l[j].e = "reset" /\ l[j].node = d}

\* C14: a fetch of P is started only when every dependency of P is Defined;
\* a P.reset(force), forced or not, that finds a dependency Undefined calls
\* reset() once on each Undefined dependency, starts no fetch of P and leaves
\* P's tracked revisions, value and revision unchanged.
C14_NoFetchWhileDependencyUndefined ==
    [][\A p \in GraphNode :
          /\ GetsIn(log', p) > 0 => \A d \in DepSet(p) : revision'[d] >= 1
          /\ \A i \in DOMAIN log' :
                ( /\ log'[i].e = "reset"
                  /\ log'[i].node = p
                  /\ \E d \in DepSet(p) : revision'[d] = 0 )
                => ( /\ \A d \in DepSet(p) :
                          Cardinality(ResetsAfter(log', i, d))
                             = (IF revision'[d] = 0 THEN 1 ELSE 0)
                     /\ \A d \in DepSet(p) : \A j \in ResetsAfter(log', i, d) :
                          log'[j].flag = FALSE
                     /\ GetsIn(log', p) = 0
                     /\ tracked'[p] = tracked[p]
                     /\ value'[p] = value[p]
                     /\ revision'[p] = revision[p]
                     /\ isAsyncUpdating'[p] = isAsyncUpdating[p] )]_vars

\* A forced reset() of P, whose dependency A is Defined and dirty and whose
\* dependency B is Undefined, has reset B and started no fetch of P.
C14_Witness ==
    /\ Op.e = "callReset"
    /\ Op.node = "P"
    /\ Op.flag
    /\ revision["A"] > tracked["P"]["A"]
    /\ revision["B"] = 0
    /\ ~isAsyncUpdating["P"]
    /\ GetsIn(log, "B") = 1
    /\ GetsIn(log, "P") = 0

\* ------------------------------------------------------------------ C15
\* The calls of the error sink (the errors callback) of node n in a turn
\* with log l.
ErrorSinkCalls(l, n) == {i \in DOMAIN l : l[i].e = "errors" /\ l[i].node = n}

\* C15 (the claim): when the get operation of a node rejects, the error sink
\* of that node is invoked exactly once.
C15_RejectionReachesErrorSink ==
    [][\A n \in GraphNode :
          (log'[1].e = "reject" /\ log'[1].node = n)
          => Cardinality(ErrorSinkCalls(log', n)) = 1]_vars

\* ------------------------------------------------------------------ C16
\* The reset() calls made in a turn with log l.
ResetsIn(l) == {i \in DOMAIN l : l[i].e = "reset"}

\* C16: the completion of a fetch by rejection or by a null result changes
\* no value, revision or tracked revision, invokes no change handler and
\* resets no dependent; the .finally callback that follows clears the
\* Updating flag of the node and changes nothing else; and whenever no
\* get operation of a node is pending and no callback of it is owed, the
\* node is not Updating.
C16_FailedFetchOnlyClearsFlag ==
    [][\A n \in GraphNode :
          /\ ( /\ log'[1].node = n
               /\ \/ log'[1].e = "reject"
                  \/ log'[1].e = "resolve" /\ log'[1].val = "null" )
             => ( /\ UNCHANGED << value, revision, tracked, isAsyncUpdating,
                                  changeHandlers, dependents >>
                  /\ \A m \in GraphNode : HandlerCalls(log', m) = {}
                  /\ ResetsIn(log') = {}
                  /\ inFlight'[n] = 0
                  /\ settling'[n] = 1 )
          /\ (log'[1].e = "finally" /\ log'[1].node = n)
             => ( /\ ~isAsyncUpdating'[n]
                  /\ \A m \in GraphNode \ {n} : isAsyncUpdating'[m] = isAsyncUpdating[m]
                  /\ UNCHANGED << value, revision, tracked, changeHandlers, dependents >> )
          /\ (inFlight'[n] = 0 /\ settling'[n] = 0) => ~isAsyncUpdating'[n]]_vars

\* The get operation of the observed, Defined node P has rejected.
C16_Witness ==
    /\ Op.e = "reject"
    /\ Op.node = "P"
    /\ revision["P"] >= 1
    /\ changeHandlers["P"] # {}
    /\ isAsyncUpdating["P"]
    /\ settling["P"] = 1

\* ------------------------------------------------------------------ C17
\* C17 (as claimed): every fetch that resolves with a result other than null
\* is committed through set(): the revision increases by 1 and the change
\* handlers are invoked; this includes 0, 0n, false and the empty string.
C17_EveryNonNullResultCommitted ==
    [][\A n \in GraphNode :
          (log'[1].e = "resolve" /\ log'[1].node = n /\ log'[1].val # "null")
          => ( /\ revision'[n] = revision[n] + 1
               /\ HandlerCalls(log', n) # {} )]_vars

\* C17 (amended): a fetch that resolves with a truthy result or with a
\* number or bigint (0 and 0n included) is committed through set(): the value
\* is the result, the revision increases by 1 and the registered handlers are
\* invoked once with the result; a fetch that resolves with null, false or
\* the empty string is skipped: value and revision stay and no handler runs.
C17_TruthyOrNumericResultCommitted ==
    [][\A n \in GraphNode :
          (log'[1].e = "resolve" /\ log'[1].node = n)
          => IF log'[1].val \in {"a", "0", "0n"}
             THEN /\ value'[n] = log'[1].val
                  /\ revision'[n] = revision[n] + 1
                  /\ Cardinality(HandlerCalls(log', n)) = 1
                  /\ \A i \in HandlerCalls(log', n) :
                        /\ log'[i].hs = changeHandlers[n]
                        /\ log'[i].val = log'[1].val
             ELSE /\ log'[1].val \in {"null", "false", ""}
                  /\ value'[n] = value[n]
                  /\ revision'[n] = revision[n]
                  /\ HandlerCalls(log', n) = {}]_vars

\* A fetch of the observed node A has resolved with false and was skipped
\* while A held the 0n committed by an earlier fetch.
C17_Witness ==
    /\ Op.e = "resolve"
    /\ Op.node = "A"
    /\ Op.val = "false"
    /\ value["A"] = "0n"
    /\ revision["A"] = 1
    /\ changeHandlers["A"] = {"h1"}
    /\ HandlerCalls(log, "A") = {}

\* ------------------------------------------------------------------ C18
\* The calls of the external commit function (setFunc) of node n in a turn
\* with log l.
SetFuncCalls(l, n) == {i \in DOMAIN l : l[i].e = "setFunc" /\ l[i].node = n}

\* C18: set(v) called by user code invokes the commit function exactly once,
\* with the new value, when the node is not Updating at the call, and not at
\* all when it is Updating; a value committed by the completion of the node's
\* own fetch is never forwarded; nothing else invokes the commit function.
C18_EchoSuppression ==
    [][\A n \in GraphNode :
          /\ (log'[1].e = "set" /\ log'[1].node = n)
             => ( /\ Cardinality(SetFuncCalls(log', n))
                       = (IF isAsyncUpdating[n] THEN 0 ELSE 1)
                  /\ \A i \in SetFuncCalls(log', n) : log'[i].val = value'[n] )
          /\ (log'[1].e = "resolve" /\ log'[1].node = n)
             => SetFuncCalls(log', n) = {}
          /\ SetFuncCalls(log', n) # {}
             => (log'[1].e = "set" /\ log'[1].node = n)]_vars

\* The fetch of the observed node P has completed with a value, which was
\* committed and announced to the handlers but not forwarded.
C18_Witness ==
    /\ Op.e = "resolve"
    /\ Op.node = "P"
    /\ Op.flag
    /\ value["P"] = "a"
    /\ changeHandlers["P"] # {}
    /\ HandlerCalls(log, "P") # {}
    /\ SetFuncCalls(log, "P") = {}

\* ------------------------------------------------------------------ C19
\* The reset() calls of node p in a turn with log l.
ResetCalls(l, p) == {i \in DOMAIN l : l[i].e = "reset" /\ l[i].node = p}

\* C19: one set() call (by user code, or by a fetch completion) applies its
\* effects in this order before it returns: value and revision updated, the
\* commit function called if the node is not Updating, every registered
\* handler invoked once with the new value, then a non-forced reset() called
\* once on every dependent; a dependent whose dependencies are all Defined
\* and which tracked the old revision tracks the new one afterwards.
C19_SetOrder ==
    [][\A n \in GraphNode :
          ( /\ log'[1].node = n
            /\ \/ log'[1].e = "set"
               \/ log'[1].e = "resolve" /\ log'[1].flag )
          => LET k == IF log'[1].e = "set" /\ ~isAsyncUpdating[n] THEN 1 ELSE 0
                 h == 2 + k
             IN  /\ revision'[n] = revision[n] + 1
                 /\ value'[n] = log'[1].val
                 /\ k = 1 => log'[2] = Ev("setFunc", n, {}, value'[n], FALSE)
                 /\ Len(log') >= h
                 /\ log'[h] = Ev("handlers", n, changeHandlers[n], value'[n], FALSE)
                 /\ HandlerCalls(log', n) = {h}
                 /\ \A i \in 1..Len(dependents[n]) :
                       LET p == dependents[n][i]
                       IN  /\ Cardinality(ResetCalls(log', p)) = 1
                           /\ \A j \in ResetCalls(log', p) : j > h /\ log'[j].flag = FALSE
                           /\ ( /\ \A d \in DepSet(p) : revision'[d] >= 1
                                /\ tracked[p][n] = revision[n] )
                              => tracked'[p][n] = revision[n] + 1
                 /\ Len(dependents[n]) > 0
                       => log'[h + 1] = Ev("reset", dependents[n][1], {}, "-", FALSE)
                 /\ Len(dependents[n]) = 0 => Len(log') = h]_vars

\* set() on the observed node A, not Updating, has called the commit
\* function, then the handler, then reset() of the dependent P, which saw the
\* new revision of A and started its fetch.
C19_Witness ==
    /\ Op.e = "set"
    /\ Op.node = "A"
    /\ Len(log) >= 5
    /\ log[2].e = "setFunc"
    /\ log[3].e = "handlers"
    /\ log[3].hs = {"h1"}
    /\ log[4].e = "reset"
    /\ log[4].node = "P"
    /\ log[5].e = "get"
    /\ log[5].node = "P"
    /\ tracked["P"]["A"] = revision["A"]
    /\ revision["A"] = 2

\* ------------------------------------------------------------------ C20
\* The _reinit() calls of node n in a turn with log l.
ReinitCalls(l, n) == {i \in DOMAIN l : l[i].e = "reinit" /\ l[i].node = n}

C21_ReinitOnlyUnobserved ==
    [][\A n \in GraphNode : ReinitIn(log', n) => changeHandlers'[n] = {}]_vars

\* The members of the sequence seq.
Members(seq) == {seq[i] : i \in 1..Len(seq)}

\* C21 (amended): _reinit() runs only in a turn in which an observation is
\* ended and the ended node has no handler left; it runs on that node and,
\* if the node is Defined, on each of its dependents, and a Defined dependent
\* is reset to revision 0 whether or not it has handlers, which are kept and
\* not invoked.
C21_ReinitCascadesToObserved ==
    [][\A n \in GraphNode :
          /\ ReinitCalls(log', n) # {}
             => ( /\ log'[1].e = "end"
                  /\ changeHandlers'[log'[1].node] = {}
                  /\ \/ n = log'[1].node
                     \/ n \in Members(dependents[log'[1].node])
                  /\ \A m \in GraphNode : HandlerCalls(log', m) = {} )
          /\ ( /\ log'[1].e = "end"
               /\ changeHandlers'[log'[1].node] = {}
               /\ revision[log'[1].node] >= 1
               /\ n \in Members(dependents[log'[1].node])
               /\ revision[n] >= 1 )
             => ( /\ ReinitIn(log', n)
                  /\ revision'[n] = 0
                  /\ changeHandlers'[n] = changeHandlers[n] )]_vars

\* Ending the last observation of A has reset its dependent P, which is
\* still observed, to revision 0.
C21_Witness ==
    /\ Op.e = "end"
    /\ Op.node = "A"
    /\ ReinitIn(log, "P")
    /\ changeHandlers["P"] = {"h1", "h2"}
    /\ revision["P"] = 0
    /\ value["P"] = Default("P", capturedBox)

\* ------------------------------------------------------------------ C22
\* C22 (as claimed): for every constructed node P, disposed or not, and
\* every node D, P is in D.dependents if and only if D is in the dependency
\* set of P.
C22_DependentsMirrorDependencies ==
    \A p \in GraphNode : \A d \in GraphNode :
        constructed[p] # "no"
        => ((p \in Members(dependents[d])) <=> (d \in DOMAIN tracked[p]))

\* C22 (amended): for every live node P and every node D, P is in
\* D.dependents if and only if D is in the dependency set of P; a disposed
\* node is in no dependents set while its own dependency set is what it was
\* at construction.
C22_LiveDependentsMirrorDependencies ==
    \A p \in GraphNode : \A d \in GraphNode :
        /\ constructed[p] = "live"
           => ((p \in Members(dependents[d])) <=> (d \in DOMAIN tracked[p]))
        /\ constructed[p] = "disposed"
           => (p \notin Members(dependents[d]) /\ DOMAIN tracked[p] = DepSet(p))

\* P has been disposed after a life in which it tracked a revision of A.
C22_Witness ==
    /\ Op.e = "dispose"
    /\ Op.node = "P"
    /\ constructed["P"] = "disposed"
    /\ dependents["A"] = << >>
    /\ dependents["B"] = << >>
    /\ tracked["P"]["A"] >= 1

C24_DeleteRemovesAllMatches ==
    [][log'[1].e = "delete"
          => value'["items"]
                = SelectSeq(value["items"], LAMBDA x : ModelOf(x) # log'[1].val)]_vars

\* ------------------------------------------------------------------ C25
\* C25 (the claim): after add on a Collection of n elements the stored focus
\* (__focus.value) is n, the index of the appended element.
C25_AddStoresAppendedIndex ==
    [][log'[1].e = "add"
          => /\ value'["focus"] = size(value["items"])
             /\ value'["focus"] = size(value'["items"]) - 1]_vars

\* ------------------------------------------------------------------ C26
\* C26 (the claim): Updating.value is true while the array-fetch is awaited
\* and false once it has completed, having resolved with an array or with
\* null, or having rejected.
C26_UpdatingBracketsFetch ==
    [][ /\ boxedGet'.stage = "awaiting" => value'["Updating"] = TRUE
        /\ log'[1].e \in {"boxedGetReturns", "boxedGetThrows"}
              => value'["Updating"] = FALSE ]_vars

\* ------------------------------------------------------------------ C27
\* C27: reset(true) on a node whose dependencies are all Defined starts
\* exactly one fetch when the node is not Updating, whether or not a
\* dependency is dirty, and starts none when the node is Updating, whose
\* fetch in flight, value and revision stay as they were.
C27_ForcedResetFetches ==
    [][\A n \in GraphNode :
          ( /\ log'[1].e = "callReset"
            /\ log'[1].node = n
            /\ log'[1].flag
            /\ AllDepsDefined(n) )
          => IF isAsyncUpdating[n]
             THEN /\ GetsIn(log', n) = 0
                  /\ inFlight'[n] = inFlight[n]
                  /\ isAsyncUpdating'[n]
                  /\ value'[n] = value[n]
                  /\ revision'[n] = revision[n]
             ELSE /\ GetsIn(log', n) = 1
                  /\ inFlight'[n] = 1
                  /\ isAsyncUpdating'[n]
                  /\ value'[n] = value[n]
                  /\ revision'[n] = revision[n]]_vars

\* reset(true) has started a fetch of P although P tracks, for each of its
\* Defined dependencies, a revision beyond the dependency's own: no
\* dependency was dirty.
C27_Witness ==
    /\ Op.e = "callReset"
    /\ Op.node = "P"
    /\ Op.flag
    /\ GetsIn(log, "P") = 1
    /\ \A d \in DepSet("P") : revision[d] >= 1 /\ tracked["P"][d] > revision[d]

\* ------------------------------------------------------------------ C29
\* C29 (the claim): in every reachable state, every tracked revision of
\* every constructed node is at most the revision of the dependency it is
\* tracked for.
C29_TrackedAtMostRevision ==
    \A p \in GraphNode : \A d \in DepSet(p) :
        constructed[p] # "no" => tracked[p][d] <= revision[d]

C28_NoLostInvalidation ==
    ( /\ \A n \in Node : inFlight[n] = 0 /\ settling[n] = 0
      /\ constructed["P"] = "live"
      /\ revision["P"] >= 1
      /\ fetchedAt["P"].held # NoFetch("P") )
        => \A d \in DepSet("P") : fetchedAt["P"].held[d] = revision[d]

\* C31: a Property that is observed, with every get operation of its
\* dependency closure resolving with a committed value, eventually becomes
\* Defined, whether its dependencies were Undefined or Defined when it was
\* constructed.
C31_LazyActivation ==
    (changeHandlers["P"] # {}) ~> (revision["P"] >= 1)

\* C32: in every reachable state of the Collection the getter CurrentAsIndex
\* does not raise, returns an index in -1..size-1, and returns -1 when the
\* collection is empty.
C32_CurrentAsIndexNeverRaises ==
    LET r == CurrentAsIndex(value["items"], value["focus"])
    IN  /\ ~r.throws
        /\ r.index \in -1..(size(value["items"]) - 1)
        /\ size(value["items"]) = 0 => r.index = -1

TypeOK ==
    /\ \A n \in GraphNode : revision[n] \in 0..MaxRev
    /\ \A n \in CollNode : revision[n] \in 0..MaxCollRev
    /\ \A n \in Node : inFlight[n] \in 0..1 /\ settling[n] \in 0..1

====
